---- MODULE Spec2Model ----
(***************************************************************************)
(* Model of src/app.py: the Titan / EMA13 webhook.                         *)
(*                                                                         *)
(* The four process-wide dictionaries (EMA_STATE, LAST_TRADES,             *)
(* POSITION_STATE, PENDING_TRADES) are functions whose DOMAIN is the set   *)
(* of keys present, exactly as a Python dict.  A request is handled by a   *)
(* worker; the handler is cut into steps, one per access to a shared       *)
(* dictionary, to the clock or to the TradersPost endpoint, each labelled  *)
(* with the source line it executes.  Spec handles requests one at a time  *)
(* (a request runs to completion); SpecConc interleaves the steps of the   *)
(* workers, as the threaded server does (the code takes no lock).          *)
(***************************************************************************)
EXTENDS Integers, Sequences, FiniteSets, TLC

\* ------------------------------------------------------------ bounds ----
Tickers == {"MNQ", "MES"}
Prices == {1, 2}
\* an exit's price is only copied into the payload and the records
ExitPrices == {1}
Workers == {"w1", "w2"}
MaxTime == 6
Delays == {5, 6}
MaxRequests == 4
MaxProcedureRuns == 2
MaxConcRequests == 3

\* ---------------------------------------------------------- constants ---
FRESH_AGE == 5
TP_DEFAULT_QTY == 1
NoQty == 0

VARIABLES now, EMA_STATE, LAST_TRADES, POSITION_STATE, PENDING_TRADES,
          tp_last, th, nreq

vars == <<now, EMA_STATE, LAST_TRADES, POSITION_STATE, PENDING_TRADES,
          tp_last, th, nreq>>

\* ------------------------------------------------------ dict helpers ----
EmptyDict == [k \in {} |-> k]

Put(d, k, v) == [x \in (DOMAIN d) \cup {k} |-> IF x = k THEN v ELSE d[x]]

Pop(d, k) == [x \in (DOMAIN d) \ {k} |-> d[x]]

Has(d, k) == k \in DOMAIN d

\* ------------------------------------------------------ requests --------
NoTicker == ""

EmaUpdates == [kind : {"ema_update"}, ticker : Tickers \cup {NoTicker},
               above13 : BOOLEAN, price : {0}]

TitanTexts == [kind : {"titan"}, ticker : Tickers, above13 : {FALSE},
               price : Prices]

ExitTexts == [kind : {"exit"}, ticker : Tickers, above13 : {FALSE},
              price : ExitPrices]

OtherBodies == [kind : {"json_other", "text_other"}, ticker : {NoTicker},
                above13 : {FALSE}, price : {0}]

NoRequest == [kind |-> "none", ticker |-> NoTicker, above13 |-> FALSE,
              price |-> 0]

\* ------------------------------------------------------ worker state ----
NoResponse == [status |-> 0, ok |-> FALSE, event |-> "", skipped |-> "",
               error |-> ""]

Response(status, ok, event, skipped, error) ==
    [status |-> status, ok |-> ok, event |-> event, skipped |-> skipped,
     error |-> error]

IdleThread ==
    [pc |-> "idle", req |-> NoRequest, out |-> <<>>, resp |-> NoResponse,
     ticker |-> NoTicker, price |-> 0, now |-> 0, pos |-> EmptyDict,
     current_dir |-> "None", new_dir |-> "None",
     exit_result |-> FALSE, entry_result |-> FALSE,
     ema_info |-> EmptyDict, direction |-> "None", result |-> FALSE]

State ==
    [now |-> now, EMA_STATE |-> EMA_STATE, LAST_TRADES |-> LAST_TRADES,
     POSITION_STATE |-> POSITION_STATE, PENDING_TRADES |-> PENDING_TRADES,
     tp_last |-> tp_last, th |-> th, nreq |-> nreq]

SetState(S) ==
    /\ now' = S.now
    /\ EMA_STATE' = S.EMA_STATE
    /\ LAST_TRADES' = S.LAST_TRADES
    /\ POSITION_STATE' = S.POSITION_STATE
    /\ PENDING_TRADES' = S.PENDING_TRADES
    /\ tp_last' = S.tp_last
    /\ th' = S.th
    /\ nreq' = S.nreq

Init ==
    /\ now = 0
    /\ EMA_STATE = EmptyDict
    /\ LAST_TRADES = EmptyDict
    /\ POSITION_STATE = EmptyDict
    /\ PENDING_TRADES = EmptyDict
    /\ tp_last = [k \in Tickers |-> "None"]
    /\ th = [w \in Workers |-> IdleThread]
    /\ nreq = 0

\* ------------------------------------------------------ helpers ---------
\* return: the handler's locals are gone, the worker keeps the request, the
\* instructions it sent and the response it gave
Ret(S, t, resp) ==
    [S EXCEPT !.th[t] = [IdleThread EXCEPT !.pc = "done", !.req = S.th[t].req,
                                           !.out = S.th[t].out,
                                           !.resp = resp]]

Goto(S, t, label) == [S EXCEPT !.th[t].pc = label]

\* send_to_traderspost: the payload goes on the wire (whether or not the
\* endpoint accepts it); ok is the endpoint's verdict, FALSE as well when
\* TP_WEBHOOK_URL is unset or the POST raises.
send_to_traderspost(S, t, payload) ==
    [S EXCEPT !.th[t].out = Append(@, payload),
              !.tp_last[payload.ticker] = payload.action]

WithQty(ticker, action, price) ==
    [ticker |-> ticker, action |-> action,
     quantity |-> IF TP_DEFAULT_QTY > 0 THEN TP_DEFAULT_QTY ELSE NoQty,
     price |-> price]

ExitPayload(ticker, price) ==
    [ticker |-> ticker, action |-> "exit", quantity |-> NoQty,
     price |-> price]

\* pos.get("open"): a missing key is None, which is falsy
PosOpen(pos) == IF Has(pos, "open") THEN pos.open ELSE FALSE

PosDirection(pos) == IF Has(pos, "direction") THEN pos.direction ELSE "None"

\* faulty variant: a redundant signal re-confirms the current direction
new_dir_Same(current_dir) == current_dir

new_dir(current_dir) == IF current_dir = "buy" THEN "sell" ELSE "buy"

\* faulty variant: the trend is read the wrong way round
direction_Inverted(above13) == IF above13 THEN "sell" ELSE "buy"

direction(above13) == IF above13 THEN "buy" ELSE "sell"

\* faulty variant: the boundary age counts as stale
IsFresh_Strict(age) == age < FRESH_AGE

IsFresh(age) == age <= FRESH_AGE

OpenPosition(dir, price) ==
    [open |-> TRUE, direction |-> dir, opened_time |-> "None",
     price |-> price]

FlatPosition(price) ==
    [open |-> FALSE, direction |-> "None", closed_time |-> "None",
     price |-> price]

\* ------------------------------------------------------ webhook ---------
\* faulty variant: a record of unknown type is accepted and ignored
webhook_begin_IgnoresUnknown(S, t, req) ==
    LET S1 == [S EXCEPT !.th[t] = [IdleThread EXCEPT !.req = req,
                                      !.ticker = req.ticker,
                                      !.price = req.price],
                        !.nreq = @ + 1]
    IN  CASE req.kind = "ema_update" ->
               IF req.ticker = NoTicker
               THEN Ret(S1, t, Response(200, TRUE, "ema_update_only", "", ""))
               ELSE Goto(S1, t, "L84")
          [] req.kind = "json_other" ->
               Ret(S1, t, Response(200, TRUE, "ema_update_only", "", ""))
          [] req.kind = "titan" -> Goto(S1, t, "L322")
          [] req.kind = "exit" -> Goto(S1, t, "L255")
          [] OTHER ->
               Ret(S1, t, Response(400, FALSE, "", "", "unrecognized payload"))

\* Classification of the body and the purely local code before the first
\* shared access.
webhook_begin(S, t, req) ==
    LET S1 == [S EXCEPT !.th[t] = [IdleThread EXCEPT !.req = req,
                                      !.ticker = req.ticker,
                                      !.price = req.price],
                        !.nreq = @ + 1]
    IN  CASE req.kind = "ema_update" ->
               IF req.ticker = NoTicker
               THEN Ret(S1, t, Response(200, TRUE, "ema_update_only", "", ""))
               ELSE Goto(S1, t, "L84")
          [] req.kind = "json_other" ->
               Ret(S1, t, Response(400, FALSE, "", "", "unknown json type"))
          [] req.kind = "titan" -> Goto(S1, t, "L322")
          [] req.kind = "exit" -> Goto(S1, t, "L255")
          [] OTHER ->
               Ret(S1, t, Response(400, FALSE, "", "", "unrecognized payload"))

\* faulty variant: an existing observation keeps its receipt stamp
update_ema_state_from_json_KeepsStamp(S, t) ==
    LET w == S.th[t]
        at == IF Has(S.EMA_STATE, w.ticker)
              THEN S.EMA_STATE[w.ticker].received_at ELSE S.now
    IN  Goto([S EXCEPT !.EMA_STATE =
                 Put(@, w.ticker, [above13 |-> w.req.above13,
                                   received_at |-> at])],
             t, "L293")

update_ema_state_from_json(S, t) ==
    LET w == S.th[t]
    IN  Goto([S EXCEPT !.EMA_STATE =
                 Put(@, w.ticker, [above13 |-> w.req.above13,
                                   received_at |-> S.now])],
             t, "L293")

\* faulty variant: the pending entry is taken although the update carried
\* no usable observation (nothing was stored for a first update)
pending_check_BeforeStore(S, t) ==
    LET k == S.th[t].ticker
    IN  IF Has(S.PENDING_TRADES, k)
        THEN Goto([S EXCEPT !.EMA_STATE = Pop(@, k)], t, "L294")
        ELSE Ret(S, t, Response(200, TRUE, "ema_update_only", "", ""))

pending_check(S, t) ==
    IF Has(S.PENDING_TRADES, S.th[t].ticker)
    THEN Goto(S, t, "L294")
    ELSE Ret(S, t, Response(200, TRUE, "ema_update_only", "", ""))

\* faulty variant: the pending entry is read but not removed
pending_pop_KeepsEntry(S, t) ==
    LET k == S.th[t].ticker
    IN  IF Has(S.PENDING_TRADES, k)
        THEN Goto([S EXCEPT !.th[t].price = S.PENDING_TRADES[k].price],
                  t, "L148")
        ELSE Ret(S, t, Response(500, FALSE, "", "", "KeyError"))

\* PENDING_TRADES.pop(ticker) raises KeyError when the key is gone; the
\* server answers an unhandled exception with status 500.
pending_pop(S, t) ==
    LET k == S.th[t].ticker
    IN  IF Has(S.PENDING_TRADES, k)
        THEN Goto([S EXCEPT !.th[t].price = S.PENDING_TRADES[k].price,
                            !.PENDING_TRADES = Pop(@, k)],
                  t, "L148")
        ELSE Ret(S, t, Response(500, FALSE, "", "", "KeyError"))

titan_now(S, t) == Goto([S EXCEPT !.th[t].now = S.now], t, "L324")

use_immediate(S, t) ==
    LET k == S.th[t].ticker
    IN  /\ Has(S.EMA_STATE, k)
        /\ IsFresh(S.th[t].now - S.EMA_STATE[k].received_at)

\* faulty variant: a missing observation is taken for a fresh one
titan_freshness_MissingIsFresh(S, t) ==
    IF ~Has(S.EMA_STATE, S.th[t].ticker) \/ use_immediate(S, t)
    THEN Goto(S, t, "L148") ELSE Goto(S, t, "L344")

titan_freshness(S, t) ==
    IF use_immediate(S, t) THEN Goto(S, t, "L148") ELSE Goto(S, t, "L344")

\* faulty variant: an existing pending entry is kept (setdefault)
titan_store_pending_SetDefault(S, t) ==
    LET w == S.th[t]
    IN  Ret([S EXCEPT !.PENDING_TRADES =
                IF Has(@, w.ticker) THEN @
                ELSE Put(@, w.ticker, [price |-> w.price, time |-> "None",
                                       created_at |-> w.now])],
            t, Response(200, TRUE, "pending_trade_stored", "", ""))

titan_store_pending(S, t) ==
    LET w == S.th[t]
    IN  Ret([S EXCEPT !.PENDING_TRADES =
                Put(@, w.ticker, [price |-> w.price, time |-> "None",
                                  created_at |-> w.now])],
            t, Response(200, TRUE, "pending_trade_stored", "", ""))

\* ---------------------------------------- handle_new_trade_for_ticker ---
\* faulty variant: the direction of the open position is not picked up
trade_read_position_DropsDirection(S, t) ==
    LET k == S.th[t].ticker
        pos == IF Has(S.POSITION_STATE, k) THEN S.POSITION_STATE[k]
               ELSE EmptyDict
    IN  IF PosOpen(pos)
        THEN Goto([S EXCEPT !.th[t].pos = pos], t, "L168")
        ELSE Goto([S EXCEPT !.th[t].pos = pos], t, "L204")

trade_read_position(S, t) ==
    LET k == S.th[t].ticker
        pos == IF Has(S.POSITION_STATE, k) THEN S.POSITION_STATE[k]
               ELSE EmptyDict
    IN  IF PosOpen(pos)
        THEN Goto([S EXCEPT !.th[t].pos = pos,
                            !.th[t].current_dir = PosDirection(pos)],
                  t, "L168")
        ELSE Goto([S EXCEPT !.th[t].pos = pos], t, "L204")

\* faulty variant: the reversal does not send the exit
reverse_send_exit_Skipped(S, t, ok) ==
    Goto([S EXCEPT !.th[t].exit_result = ok], t, "L181")

reverse_send_exit(S, t, ok) ==
    LET w == S.th[t]
    IN  Goto([send_to_traderspost(S, t, WithQty(w.ticker, "exit", w.price))
                EXCEPT !.th[t].exit_result = ok],
             t, "L181")

reverse_send_entry(S, t, ok) ==
    LET w == S.th[t]
        nd == new_dir(w.current_dir)
    IN  Goto([send_to_traderspost(S, t, WithQty(w.ticker, nd, w.price))
                EXCEPT !.th[t].entry_result = ok, !.th[t].new_dir = nd],
             t, "L183")

reverse_write_position(S, t) ==
    LET w == S.th[t]
    IN  Goto([S EXCEPT !.POSITION_STATE =
                 Put(@, w.ticker, OpenPosition(w.new_dir, w.price))],
             t, "L190")

reverse_write_last(S, t) ==
    LET w == S.th[t]
    IN  Ret([S EXCEPT !.LAST_TRADES =
                Put(@, w.ticker,
                    [event |-> "exit_and_reverse", from |-> w.current_dir,
                     to |-> w.new_dir, price |-> w.price, time |-> "None",
                     exit_result |-> w.exit_result,
                     entry_result |-> w.entry_result])],
            t, Response(200, w.exit_result /\ w.entry_result,
                        "exit_and_reverse", "", ""))

entry_read_ema(S, t) ==
    LET k == S.th[t].ticker
    IN  IF Has(S.EMA_STATE, k)
        THEN Goto([S EXCEPT !.th[t].ema_info = S.EMA_STATE[k]], t, "L221")
        ELSE Ret(S, t, Response(200, TRUE, "", "no_ema_state", ""))

entry_send(S, t, ok) ==
    LET w == S.th[t]
        d == direction(w.ema_info.above13)
    IN  Goto([send_to_traderspost(S, t, WithQty(w.ticker, d, w.price))
                EXCEPT !.th[t].result = ok, !.th[t].direction = d],
             t, "L223")

\* faulty variant: the ledger is opened only when the enter was delivered
entry_write_position_OnlyOnSuccess(S, t) ==
    LET w == S.th[t]
    IN  IF w.result
        THEN Goto([S EXCEPT !.POSITION_STATE =
                      Put(@, w.ticker, OpenPosition(w.direction, w.price))],
                  t, "L230")
        ELSE Goto(S, t, "L230")

entry_write_position(S, t) ==
    LET w == S.th[t]
    IN  Goto([S EXCEPT !.POSITION_STATE =
                 Put(@, w.ticker, OpenPosition(w.direction, w.price))],
             t, "L230")

entry_write_last(S, t) ==
    LET w == S.th[t]
    IN  Ret([S EXCEPT !.LAST_TRADES =
                Put(@, w.ticker,
                    [event |-> "new_trade", direction |-> w.direction,
                     price |-> w.price, above13 |-> w.ema_info.above13,
                     ema_snapshot |-> w.ema_info, time |-> "None",
                     tp_result |-> w.result])],
            t, Response(200, w.result, "new_trade", "", ""))

\* --------------------------------------------- handle_exit_for_ticker ---
exit_send(S, t, ok) ==
    LET w == S.th[t]
    IN  Goto([send_to_traderspost(S, t, ExitPayload(w.ticker, w.price))
                EXCEPT !.th[t].result = ok],
             t, "L257")

\* faulty variant: the exit clears the open flag but keeps the direction
exit_write_position_KeepsDirection(S, t) ==
    LET w == S.th[t]
        old == IF Has(S.POSITION_STATE, w.ticker)
               THEN S.POSITION_STATE[w.ticker].direction ELSE "None"
    IN  Goto([S EXCEPT !.POSITION_STATE =
                 Put(@, w.ticker, [FlatPosition(w.price)
                                     EXCEPT !.direction = old])],
             t, "L264")

\* faulty variant: the ledger is set flat only when the exit was delivered
exit_write_position_OnlyOnSuccess(S, t) ==
    LET w == S.th[t]
    IN  IF w.result
        THEN Goto([S EXCEPT !.POSITION_STATE =
                      Put(@, w.ticker, FlatPosition(w.price))],
                  t, "L264")
        ELSE Goto(S, t, "L264")

exit_write_position(S, t) ==
    LET w == S.th[t]
    IN  Goto([S EXCEPT !.POSITION_STATE =
                 Put(@, w.ticker, FlatPosition(w.price))],
             t, "L264")

\* faulty variant: an exit also cancels the instrument's pending trade
exit_write_last_ClearsPending(S, t) ==
    LET w == S.th[t]
    IN  Ret([S EXCEPT !.LAST_TRADES =
                Put(@, w.ticker,
                    [event |-> "exit", price |-> w.price, time |-> "None",
                     tp_result |-> w.result]),
                      !.PENDING_TRADES = Pop(@, w.ticker)],
            t, Response(200, w.result, "exit", "", ""))

exit_write_last(S, t) ==
    LET w == S.th[t]
    IN  Ret([S EXCEPT !.LAST_TRADES =
                Put(@, w.ticker,
                    [event |-> "exit", price |-> w.price, time |-> "None",
                     tp_result |-> w.result])],
            t, Response(200, w.result, "exit", "", ""))

\* ------------------------------------------------------ one step --------
SendLabels == {"L168", "L181", "L221", "L255"}

Running(S, t) == S.th[t].pc \notin {"idle", "done"}

Step(S, t, ok) ==
    LET pc == S.th[t].pc
    IN  CASE pc = "L84" -> update_ema_state_from_json(S, t)
          [] pc = "L293" -> pending_check(S, t)
          [] pc = "L294" -> pending_pop(S, t)
          [] pc = "L322" -> titan_now(S, t)
          [] pc = "L324" -> titan_freshness(S, t)
          [] pc = "L344" -> titan_store_pending(S, t)
          [] pc = "L148" -> trade_read_position(S, t)
          [] pc = "L168" -> reverse_send_exit(S, t, ok)
          [] pc = "L181" -> reverse_send_entry(S, t, ok)
          [] pc = "L183" -> reverse_write_position(S, t)
          [] pc = "L190" -> reverse_write_last(S, t)
          [] pc = "L204" -> entry_read_ema(S, t)
          [] pc = "L221" -> entry_send(S, t, ok)
          [] pc = "L223" -> entry_write_position(S, t)
          [] pc = "L230" -> entry_write_last(S, t)
          [] pc = "L255" -> exit_send(S, t, ok)
          [] pc = "L257" -> exit_write_position(S, t)
          [] pc = "L264" -> exit_write_last(S, t)
          [] OTHER -> S

\* A handler run to completion with no other worker in between; oks are the
\* endpoint's verdicts on the instructions it sends, in order.
RECURSIVE Run(_, _, _)
Run(S, t, oks) ==
    IF ~Running(S, t) THEN S
    ELSE IF S.th[t].pc \in SendLabels
         THEN Run(Step(S, t, Head(oks)), t, Tail(oks))
         ELSE Run(Step(S, t, TRUE), t, oks)

webhook(S, t, req, oks) == Run(webhook_begin(S, t, req), t, oks)

Verdicts == [1..2 -> BOOLEAN]

\* ------------------------------------------------------ actions ---------
Tick ==
    /\ \E d \in Delays : now + d <= MaxTime /\ now' = now + d
    /\ UNCHANGED <<EMA_STATE, LAST_TRADES, POSITION_STATE, PENDING_TRADES,
                   tp_last, th, nreq>>

\* one request at a time, handled by worker w1; the endpoint gives one
\* verdict per instruction the handler sends (their number does not depend
\* on the verdicts: line 181 follows line 168 unconditionally)
RECURSIVE SendCount(_, _)
SendCount(S, t) ==
    IF ~Running(S, t) THEN 0
    ELSE (IF S.th[t].pc \in SendLabels THEN 1 ELSE 0)
           + SendCount(Step(S, t, TRUE), t)

Sends(req) == SendCount(webhook_begin(State, "w1", req), "w1")

Serve(req) ==
    /\ nreq < MaxRequests
    /\ \E oks \in [1..Sends(req) -> BOOLEAN] :
          SetState(webhook(State, "w1", req, oks))

TrendUpdate == \E req \in EmaUpdates : Serve(req)

TradeDesignSignal == \E req \in TitanTexts : Serve(req)

ExitSignal == \E req \in ExitTexts : Serve(req)

Unrecognized == \E req \in OtherBodies : Serve(req)

Next == Tick \/ TrendUpdate \/ TradeDesignSignal \/ ExitSignal \/ Unrecognized

Spec == Init /\ [][Next]_vars

\* concurrent workers
Receive(t) ==
    /\ nreq < MaxConcRequests
    /\ ~Running(State, t)
    /\ \E req \in EmaUpdates \cup TitanTexts \cup ExitTexts \cup OtherBodies :
          SetState(webhook_begin(State, t, req))

WorkerStep(t) ==
    /\ Running(State, t)
    /\ \E ok \in BOOLEAN : SetState(Step(State, t, ok))

NextConc == Tick \/ (\E t \in Workers : Receive(t))
                 \/ (\E t \in Workers : WorkerStep(t))

SpecConc == Init /\ [][NextConc]_vars

\* handle_new_trade_for_ticker as a function of the stores it is called
\* with: the ledger entry of an instrument is any record the dictionary
\* can hold, the inconsistent one (open, direction None) included, and the
\* procedure is run on it as lines 299 and 340 call it.
LedgerEntries ==
    {FlatPosition(1)} \cup {OpenPosition(d, 1) : d \in {"buy", "sell", "None"}}

Observations == [above13 : BOOLEAN, received_at : {0}]

DictsOver(V) == UNION {[D -> V] : D \in SUBSET Tickers}

InitLedger ==
    /\ now = 0
    /\ EMA_STATE \in DictsOver(Observations)
    /\ LAST_TRADES = EmptyDict
    /\ POSITION_STATE \in DictsOver(LedgerEntries)
    /\ PENDING_TRADES = EmptyDict
    /\ tp_last = [k \in Tickers |-> "None"]
    /\ th = [w \in Workers |-> IdleThread]
    /\ nreq = 0

handle_new_trade_for_ticker(S, t, req, oks) ==
    Run([S EXCEPT !.th[t] = [IdleThread EXCEPT !.req = req,
                                !.ticker = req.ticker,
                                !.price = req.price,
                                !.pc = "L148"],
                  !.nreq = @ + 1],
        t, oks)

TradeProcedure ==
    /\ nreq < MaxProcedureRuns
    /\ \E req \in TitanTexts, oks \in Verdicts :
          SetState(handle_new_trade_for_ticker(State, "w1", req, oks))

NextLedger == TradeProcedure

SpecLedger == InitLedger /\ [][NextLedger]_vars

\* ================================================== properties ==========
\* The worker that serves requests one at a time, the request it served
\* last, the instructions that request sent and the response it got.
Last == th["w1"]

Served(kind) == nreq' = nreq + 1 /\ Last'.req.kind = kind

IsEnter(action) == action \in {"buy", "sell"}

Opposite(dir) == CASE dir = "buy" -> "sell" [] dir = "sell" -> "buy"
                   [] OTHER -> "None"

LedgerOpen(P, k) == Has(P, k) /\ P[k].open

LedgerDirection(P, k) == IF Has(P, k) THEN P[k].direction ELSE "None"

FreshObservation(k) ==
    Has(EMA_STATE, k) /\ now - EMA_STATE[k].received_at <= 5

Actions(out) == [i \in 1..Len(out) |-> out[i].action]

\* ---- C1 ----------------------------------------------------------------
\* C1: under concurrent handling, two trade-design signals for one
\* instrument never both observe FLAT and both emit an enter: no two
\* workers are at the same time past the send of a fresh entry (lines
\* 221-230), which a handler reaches only after reading the instrument as
\* not open and sending buy or sell.
EnteredFromFlat(t) ==
    /\ th[t].req.kind = "titan"
    /\ th[t].pc \in {"L223", "L230"}
    /\ ~PosOpen(th[t].pos)
    /\ Len(th[t].out) = 1 /\ IsEnter(th[t].out[1].action)

C1_NoDoubleEnter ==
    \A t1, t2 \in Workers :
        (t1 # t2 /\ th[t1].ticker = th[t2].ticker)
            => ~(EnteredFromFlat(t1) /\ EnteredFromFlat(t2))

\* ---- C2 ----------------------------------------------------------------
\* C2: requests served one at a time.  After each request the ledger of an
\* instrument is open exactly when the last instruction sent for it was an
\* enter, with that enter's action as direction; and in the stream of
\* instructions of one instrument no enter directly follows an enter.
LedgerMatchesWire ==
    \A k \in Tickers :
        /\ LedgerOpen(POSITION_STATE, k) <=> IsEnter(tp_last[k])
        /\ IsEnter(tp_last[k]) => LedgerDirection(POSITION_STATE, k) = tp_last[k]

NoEnterAfterEnter ==
    \A k \in Tickers :
        LET acts == <<tp_last[k]>> \o
                    Actions(SelectSeq(Last'.out, LAMBDA p : p.ticker = k))
        IN  \A i \in 1..(Len(acts) - 1) :
                ~(IsEnter(acts[i]) /\ IsEnter(acts[i + 1]))

C2_StreamConsistent ==
    [][ nreq' = nreq + 1 => (NoEnterAfterEnter /\ LedgerMatchesWire') ]_vars

C2_Witness ==
    /\ Last.req.kind = "titan"
    /\ Len(Last.out) = 1 /\ IsEnter(Last.out[1].action)
    /\ LedgerOpen(POSITION_STATE, Last.req.ticker)
    /\ Has(LAST_TRADES, Last.req.ticker)
    /\ nreq = 4

\* ---- C3 ----------------------------------------------------------------
\* C3: in every reachable state, a Position whose open flag is false has
\* direction none (an absent entry is flat with no direction).
C3_FlatHasNoDirection ==
    \A k \in Tickers :
        ~LedgerOpen(POSITION_STATE, k)
            => LedgerDirection(POSITION_STATE, k) = "None"

C3_Witness ==
    \E k \in Tickers :
        /\ Has(POSITION_STATE, k) /\ ~POSITION_STATE[k].open
        /\ Has(LAST_TRADES, k) /\ LAST_TRADES[k].event = "exit"
        /\ tp_last[k] = "exit"

\* ---- C4 ----------------------------------------------------------------
\* C4: a trade-design signal for an instrument with no TrendObservation
\* sends no instruction, leaves every Position unchanged and leaves a
\* PendingTrade for the instrument holding the signal's price.
C4_NoObservationDefers ==
    [][ (Served("titan") /\ ~Has(EMA_STATE, Last'.req.ticker))
          => /\ Last'.out = <<>>
             /\ POSITION_STATE' = POSITION_STATE
             /\ Has(PENDING_TRADES', Last'.req.ticker)
             /\ PENDING_TRADES'[Last'.req.ticker].price = Last'.req.price
      ]_vars

C4_Witness ==
    /\ Last.req.kind = "titan"
    /\ ~Has(EMA_STATE, Last.req.ticker)
    /\ Last.out = <<>>
    /\ Has(PENDING_TRADES, Last.req.ticker)
    /\ PENDING_TRADES[Last.req.ticker].price = Last.req.price
    /\ Has(POSITION_STATE, Last.req.ticker)

\* ---- C5 ----------------------------------------------------------------
\* C5: a TrendUpdate for an instrument that has a PendingTrade with price p
\* removes the pending entry and gives the instructions, the decision and
\* the Position that the same TrendUpdate without the pending entry,
\* followed by a fresh trade-design signal with price p, gives from the
\* same starting state (for the same verdicts of the endpoint).
\* the endpoint's verdicts on the instructions of the step, as the audit
\* record written by the step reports them
AuditedVerdicts(a) ==
    IF a.event = "exit_and_reverse" THEN <<a.exit_result, a.entry_result>>
    ELSE <<a.tp_result>>

DeferredEqualsImmediate ==
    LET k == Last'.req.ticker
        p == PENDING_TRADES[k].price
        S0 == [State EXCEPT !.PENDING_TRADES = Pop(@, k)]
        S1 == webhook(S0, "w1", Last'.req, <<>>)
        titan == [kind |-> "titan", ticker |-> k, above13 |-> FALSE,
                  price |-> p]
    IN  /\ ~Has(PENDING_TRADES', k)
        /\ S1.th["w1"].out = <<>>
        /\ S1.POSITION_STATE = POSITION_STATE
        /\ Has(LAST_TRADES', k)
        /\ LET S2 == webhook(S1, "w1", titan, AuditedVerdicts(LAST_TRADES'[k]))
           IN  /\ Last'.out = S2.th["w1"].out
               /\ Last'.resp = S2.th["w1"].resp
               /\ POSITION_STATE' = S2.POSITION_STATE
               /\ LAST_TRADES' = S2.LAST_TRADES

C5_DeferredEqualsImmediate ==
    [][ (Served("ema_update") /\ Has(PENDING_TRADES, Last'.req.ticker))
          => DeferredEqualsImmediate ]_vars

C5_Witness ==
    /\ Last.req.kind = "ema_update"
    /\ Len(Last.out) = 2
    /\ Last.resp.event = "exit_and_reverse"
    /\ ~Has(PENDING_TRADES, Last.req.ticker)

\* ---- C6 ----------------------------------------------------------------
\* C6: a trade-design signal for an open position with a fresh
\* TrendObservation sends exactly two instructions, exit then enter, also
\* when the delivery of the exit fails; the enter and the resulting
\* Position have the direction opposite to the prior one, whatever the
\* observation's above13.
C6_ReversalIsExitThenOpposite ==
    [][ (/\ Served("titan")
         /\ LedgerOpen(POSITION_STATE, Last'.req.ticker)
         /\ FreshObservation(Last'.req.ticker))
          => LET k == Last'.req.ticker
                 prior == POSITION_STATE[k].direction
             IN  /\ Len(Last'.out) = 2
                 /\ Last'.out[1].action = "exit"
                 /\ Last'.out[1].ticker = k /\ Last'.out[2].ticker = k
                 /\ IsEnter(Last'.out[2].action)
                 /\ Last'.out[2].action = Opposite(prior)
                 /\ LedgerOpen(POSITION_STATE', k)
                 /\ POSITION_STATE'[k].direction = Opposite(prior)
      ]_vars

\* the exit was refused, the enter was sent all the same, and the new
\* direction (sell) goes against the observation (above13)
C6_Witness ==
    LET k == Last.req.ticker
    IN  /\ Last.req.kind = "titan"
        /\ Len(Last.out) = 2
        /\ Has(LAST_TRADES, k)
        /\ LAST_TRADES[k].event = "exit_and_reverse"
        /\ ~LAST_TRADES[k].exit_result
        /\ LAST_TRADES[k].from = "buy"
        /\ Has(EMA_STATE, k) /\ EMA_STATE[k].above13
        /\ POSITION_STATE[k].direction = "sell"

\* ---- C7 ----------------------------------------------------------------
\* C7: a trade-design signal for a FLAT instrument with a fresh
\* TrendObservation sends exactly one instruction, buy when above13 and
\* sell otherwise, and opens the Position in that direction; a deferred
\* trade fired by a TrendUpdate takes the direction of that TrendUpdate.
EntersOnce(k, above) ==
    LET want == IF above THEN "buy" ELSE "sell"
    IN  /\ Len(Last'.out) = 1
        /\ Last'.out[1].ticker = k
        /\ Last'.out[1].action = want
        /\ LedgerOpen(POSITION_STATE', k)
        /\ POSITION_STATE'[k].direction = want

C7_FlatEntersByTrend ==
    [][ /\ (/\ Served("titan")
            /\ ~LedgerOpen(POSITION_STATE, Last'.req.ticker)
            /\ FreshObservation(Last'.req.ticker))
             => EntersOnce(Last'.req.ticker,
                           EMA_STATE[Last'.req.ticker].above13)
        /\ (/\ Served("ema_update")
            /\ Has(PENDING_TRADES, Last'.req.ticker)
            /\ ~LedgerOpen(POSITION_STATE, Last'.req.ticker))
             => EntersOnce(Last'.req.ticker, Last'.req.above13)
      ]_vars

\* a deferred trade fired by an update that says below
C7_Witness ==
    LET k == Last.req.ticker
    IN  /\ Last.req.kind = "ema_update"
        /\ ~Last.req.above13
        /\ Len(Last.out) = 1 /\ Last.out[1].action = "sell"
        /\ LedgerOpen(POSITION_STATE, k)
        /\ POSITION_STATE[k].direction = "sell"

\* ---- C8 ----------------------------------------------------------------
\* C8: an ExitSignal sends exactly one exit instruction and leaves the
\* instrument's Position flat (open false, direction none), whatever the
\* prior state and whether or not the delivery succeeds.
C8_ExitAlwaysFlat ==
    [][ Served("exit")
          => LET k == Last'.req.ticker
             IN  /\ Len(Last'.out) = 1
                 /\ Last'.out[1].action = "exit"
                 /\ Last'.out[1].ticker = k
                 /\ Has(POSITION_STATE', k)
                 /\ ~POSITION_STATE'[k].open
                 /\ POSITION_STATE'[k].direction = "None"
      ]_vars

C8_Witness ==
    LET k == Last.req.ticker
    IN  /\ Last.req.kind = "exit"
        /\ ~Last.resp.ok
        /\ Len(Last.out) = 1
        /\ Has(POSITION_STATE, k) /\ ~POSITION_STATE[k].open
        /\ Has(EMA_STATE, k)
        /\ nreq = 3

\* ---- C9 ----------------------------------------------------------------
\* C9: a deferred trade-design signal that finds a PendingTrade of the
\* same instrument (no TrendUpdate has consumed it) replaces it: the one
\* pending entry carries the new price; the TrendUpdate that consumes a
\* pending entry runs one trade decision, all of whose instructions carry
\* the pending price.
C9_LastPendingWins ==
    [][ /\ (/\ Served("titan")
            /\ Has(PENDING_TRADES, Last'.req.ticker)
            /\ Last'.resp.event = "pending_trade_stored")
             => /\ Has(PENDING_TRADES', Last'.req.ticker)
                /\ PENDING_TRADES'[Last'.req.ticker].price = Last'.req.price
                /\ DOMAIN PENDING_TRADES' = DOMAIN PENDING_TRADES
        /\ (/\ Served("ema_update")
            /\ Has(PENDING_TRADES, Last'.req.ticker))
             => LET k == Last'.req.ticker
                IN  /\ ~Has(PENDING_TRADES', k)
                    /\ Last'.resp.event \in {"new_trade", "exit_and_reverse"}
                    /\ Cardinality({i \in 1..Len(Last'.out) :
                                      IsEnter(Last'.out[i].action)}) = 1
                    /\ \A i \in 1..Len(Last'.out) :
                          /\ Last'.out[i].ticker = k
                          /\ Last'.out[i].price = PENDING_TRADES[k].price
      ]_vars

\* a second request, deferred at time 6, whose price is the pending one
C9_Witness ==
    LET k == Last.req.ticker
    IN  /\ Last.req.kind = "titan"
        /\ Last.req.price = 2
        /\ Last.resp.event = "pending_trade_stored"
        /\ Has(PENDING_TRADES, k)
        /\ PENDING_TRADES[k].price = 2
        /\ PENDING_TRADES[k].created_at = 6
        /\ nreq = 2

\* ---- C10 ---------------------------------------------------------------
\* C10: a trade-design signal is handled immediately exactly when the
\* instrument has a TrendObservation with now - received_at <= 5; in every
\* other case it sends no instruction, leaves Position unchanged and
\* stores a PendingTrade with the signal's price.
C10_FreshnessWindow ==
    [][ Served("titan")
          => LET k == Last'.req.ticker
             IN  IF FreshObservation(k)
                 THEN /\ Last'.resp.event \in {"new_trade", "exit_and_reverse"}
                      /\ Len(Last'.out) >= 1
                      /\ PENDING_TRADES' = PENDING_TRADES
                 ELSE /\ Last'.resp.event = "pending_trade_stored"
                      /\ Last'.out = <<>>
                      /\ POSITION_STATE' = POSITION_STATE
                      /\ Has(PENDING_TRADES', k)
                      /\ PENDING_TRADES'[k].price = Last'.req.price
      ]_vars

C10_Witness ==
    LET k == Last.req.ticker
    IN  /\ Last.req.kind = "titan"
        /\ Has(EMA_STATE, k)
        /\ now - EMA_STATE[k].received_at = 5
        /\ Last.resp.event = "new_trade"
        /\ Len(Last.out) = 1

\* ---- C11 ---------------------------------------------------------------
\* C11: a TrendUpdate for an instrument with no PendingTrade sends no
\* instruction and leaves every Position and every PendingTrade (and the
\* audit) unchanged; it replaces that instrument's TrendObservation,
\* stamped with the current clock, and no other instrument's.
C11_PlainTrendUpdate ==
    [][ (/\ Served("ema_update")
         /\ Last'.req.ticker # NoTicker
         /\ ~Has(PENDING_TRADES, Last'.req.ticker))
          => LET k == Last'.req.ticker
             IN  /\ Last'.out = <<>>
                 /\ Last'.resp.event = "ema_update_only"
                 /\ POSITION_STATE' = POSITION_STATE
                 /\ PENDING_TRADES' = PENDING_TRADES
                 /\ LAST_TRADES' = LAST_TRADES
                 /\ tp_last' = tp_last
                 /\ Has(EMA_STATE', k)
                 /\ EMA_STATE'[k].above13 = Last'.req.above13
                 /\ EMA_STATE'[k].received_at = now
                 /\ \A j \in Tickers \ {k} :
                       /\ Has(EMA_STATE', j) <=> Has(EMA_STATE, j)
                       /\ Has(EMA_STATE, j) => EMA_STATE'[j] = EMA_STATE[j]
      ]_vars

\* an update that replaced an older observation of an open instrument
\* while the other instrument has a pending trade
C11_Witness ==
    LET k == Last.req.ticker
    IN  /\ Last.req.kind = "ema_update"
        /\ Last.resp.event = "ema_update_only"
        /\ k # NoTicker
        /\ EMA_STATE[k].received_at = now /\ now > 0
        /\ LedgerOpen(POSITION_STATE, k)
        /\ \E j \in Tickers \ {k} : Has(PENDING_TRADES, j)

\* ---- C12 ---------------------------------------------------------------
\* C12: a request whose deliveries fail leaves the ledger exactly as the
\* same request with every delivery accepted would: a failed enter leaves
\* the Position open in the entered direction, a failed reversal leaves
\* the reversed direction, a failed exit leaves the Position flat.
AllAccepted == [i \in 1..2 |-> TRUE]

LedgerIfAccepted == webhook(State, "w1", Last'.req, AllAccepted).POSITION_STATE

C12_LedgerIgnoresDelivery ==
    [][ nreq' = nreq + 1
          => /\ POSITION_STATE' = LedgerIfAccepted
             /\ \A i \in 1..Len(Last'.out) :
                   LET p == Last'.out[i]
                   IN  i = Len(Last'.out)
                         => IF IsEnter(p.action)
                            THEN /\ LedgerOpen(POSITION_STATE', p.ticker)
                                 /\ POSITION_STATE'[p.ticker].direction
                                      = p.action
                            ELSE ~LedgerOpen(POSITION_STATE', p.ticker)
      ]_vars

\* a reversal both of whose deliveries failed
C12_Witness ==
    LET k == Last.req.ticker
    IN  /\ Last.req.kind = "titan"
        /\ Has(LAST_TRADES, k)
        /\ LAST_TRADES[k].event = "exit_and_reverse"
        /\ ~LAST_TRADES[k].exit_result /\ ~LAST_TRADES[k].entry_result
        /\ ~Last.resp.ok
        /\ LedgerOpen(POSITION_STATE, k)
        /\ POSITION_STATE[k].direction = LAST_TRADES[k].to

\* ---- C13 ---------------------------------------------------------------
\* C13: whenever the delivery of at least one instruction of a decision
\* fails, the decision's ok is false (for a reversal, the conjunction of
\* both deliveries) and the caller gets a response that is not 2xx.
DeliveryFailed ==
    LET k == Last.req.ticker
    IN  /\ Last.out # <<>>
        /\ Has(LAST_TRADES, k)
        /\ \/ /\ LAST_TRADES[k].event = "exit_and_reverse"
              /\ ~(LAST_TRADES[k].exit_result /\ LAST_TRADES[k].entry_result)
           \/ /\ LAST_TRADES[k].event \in {"new_trade", "exit"}
              /\ ~LAST_TRADES[k].tp_result

C13_FailureIsNot2xx ==
    DeliveryFailed
        => /\ ~Last.resp.ok
           /\ ~(Last.resp.status \in 200..299)

\* ---- C14 ---------------------------------------------------------------
\* C14: a body that is not recognized (a record of another type, or text
\* matching neither pattern) is answered with status 400, sends no
\* instruction and leaves TrendObservation, PendingTrade, Position and
\* the audit of every instrument unchanged.
C14_UnrecognizedRejected ==
    [][ (Served("json_other") \/ Served("text_other"))
          => /\ Last'.resp.status = 400
             /\ ~Last'.resp.ok
             /\ Last'.out = <<>>
             /\ tp_last' = tp_last
             /\ EMA_STATE' = EMA_STATE
             /\ PENDING_TRADES' = PENDING_TRADES
             /\ POSITION_STATE' = POSITION_STATE
             /\ LAST_TRADES' = LAST_TRADES
      ]_vars

\* a rejected record of unknown type, with every store populated
C14_Witness ==
    /\ Last.req.kind = "json_other"
    /\ Last.resp.status = 400
    /\ Last.out = <<>>
    /\ EMA_STATE # EmptyDict /\ PENDING_TRADES # EmptyDict
    /\ POSITION_STATE # EmptyDict /\ LAST_TRADES # EmptyDict

C16_TakeIsAtomic ==
    \A t \in Workers :
        (th[t].req.kind = "ema_update" /\ th[t].pc = "done")
            => /\ th[t].resp.status = 200
               /\ th[t].resp.event \in
                     {"ema_update_only", "new_trade", "exit_and_reverse"}

\* ---- C17 ---------------------------------------------------------------
\* C17: under concurrent handling, a PendingTrade never coexists with a
\* TrendObservation of its instrument that was received after the signal
\* that stored it took its time (line 322, before its freshness check),
\* unless the TrendUpdate that brought the observation is still on its
\* way to taking the entry (lines 293-294).
TakingPending(k) ==
    \E t \in Workers :
        /\ th[t].req.kind = "ema_update"
        /\ th[t].ticker = k
        /\ th[t].pc \in {"L293", "L294"}

C17_NoStrandedPending ==
    \A k \in Tickers :
        (/\ Has(PENDING_TRADES, k)
         /\ Has(EMA_STATE, k)
         /\ EMA_STATE[k].received_at > PENDING_TRADES[k].created_at)
            => TakingPending(k)

\* ---- C18 ---------------------------------------------------------------
\* C18: an ExitSignal leaves every PendingTrade and TrendObservation
\* unchanged, the passing of time removes no PendingTrade, and the next
\* TrendUpdate of an instrument that is flat with a PendingTrade fires it
\* and opens a Position.
C18_PendingSurvivesExit ==
    [][ /\ Served("exit")
             => /\ PENDING_TRADES' = PENDING_TRADES
                /\ EMA_STATE' = EMA_STATE
        /\ now' # now => PENDING_TRADES' = PENDING_TRADES
        /\ (/\ Served("ema_update")
            /\ Has(PENDING_TRADES, Last'.req.ticker)
            /\ ~LedgerOpen(POSITION_STATE, Last'.req.ticker))
             => /\ Len(Last'.out) = 1
                /\ IsEnter(Last'.out[1].action)
                /\ Last'.out[1].price = PENDING_TRADES[Last'.req.ticker].price
                /\ LedgerOpen(POSITION_STATE', Last'.req.ticker)
      ]_vars

\* an exit served later than the instrument's pending trade was stored,
\* the pending trade still there
C18_Witness ==
    LET k == Last.req.ticker
    IN  /\ Last.req.kind = "exit"
        /\ Has(PENDING_TRADES, k)
        /\ PENDING_TRADES[k].created_at < now
        /\ Has(POSITION_STATE, k) /\ ~POSITION_STATE[k].open
        /\ tp_last[k] = "exit"

\* ---- C19 ---------------------------------------------------------------
\* C19: with requests served one at a time, an open Position has
\* direction buy or sell (open with direction none is unreachable), and
\* every reversal goes from buy to sell or from sell to buy.
C19_OpenHasDirection ==
    \A k \in Tickers :
        /\ LedgerOpen(POSITION_STATE, k)
             => POSITION_STATE[k].direction \in {"buy", "sell"}
        /\ (Has(LAST_TRADES, k) /\ LAST_TRADES[k].event = "exit_and_reverse")
             => /\ LAST_TRADES[k].from \in {"buy", "sell"}
                /\ LAST_TRADES[k].to = Opposite(LAST_TRADES[k].from)

\* an open position left by a reversal, in the direction of the trend
C19_Witness ==
    \E k \in Tickers :
        /\ Has(LAST_TRADES, k)
        /\ LAST_TRADES[k].event = "exit_and_reverse"
        /\ LedgerOpen(POSITION_STATE, k)
        /\ POSITION_STATE[k].direction = LAST_TRADES[k].to
        /\ Has(EMA_STATE, k)
        /\ direction(EMA_STATE[k].above13) = POSITION_STATE[k].direction
        /\ EMA_STATE[k].received_at = now
        /\ nreq = 4

\* ---- C20 ---------------------------------------------------------------
\* C20: whenever the webhook runs the trade-design procedure a
\* TrendObservation exists: no request is answered "skipped:
\* no_ema_state", and a TrendUpdate that takes a PendingTrade sends at
\* least one instruction.
C20_NeverSkipped ==
    [][ nreq' = nreq + 1
          => /\ Last'.resp.skipped = ""
             /\ (/\ Last'.req.kind = "ema_update"
                 /\ Has(PENDING_TRADES, Last'.req.ticker))
                  => /\ ~Has(PENDING_TRADES', Last'.req.ticker)
                     /\ Last'.out # <<>>
                     /\ Has(EMA_STATE', Last'.req.ticker)
      ]_vars

\* the instrument's first observation ever takes a pending trade
C20_Witness ==
    LET k == Last.req.ticker
    IN  /\ Last.req.kind = "ema_update"
        /\ Last.resp.event = "new_trade"
        /\ Len(Last.out) = 1
        /\ ~Has(PENDING_TRADES, k)
        /\ nreq = 2

====
